---- MODULE Spec2Model ----
(***************************************************************************)
(* Model of printPDF.py: the Window (UI thread, one event loop) and the    *)
(* printPdfWorker (one background QThread per print job).                  *)
(*                                                                         *)
(* The UI thread is a program counter uiPc over the statements of          *)
(* Window.runPrintTask / Window.printFinished; the worker is a program     *)
(* counter wpc over the statements of printPdfWorker.run.  Signals that    *)
(* cross threads are queued on uiQueue and dispatched only while the UI    *)
(* thread sits in an event loop.                                           *)
(***************************************************************************)
EXTENDS Integers, Sequences, FiniteSets, TLC

\* ---- bounds of the model ------------------------------------------------
MaxPages == 3
MaxJobs == 2
MaxDim == 9

\* largest from/to value the print dialog can deliver (one past the document)
MaxField == MaxPages + 1

VARIABLES
    uiPc,              \* position of the UI thread
    btnEnabled,        \* longRunningBtn.isEnabled()
    stepLabel,         \* percentage shown by stepLabel
    pdf_file,          \* what getFile() returned for the current click
    jobs,              \* number of clicks on the print button so far
    inFlight,          \* threads started whose printFinished has not run
    finishedConnected, \* thread.finished is connected to printFinished
    uiQueue,           \* queued cross-thread calls waiting for the UI loop
    thState,           \* state of self.thread
    initError,         \* exception raised by the last printPdfWorker(...)
    wpc,               \* position of the worker inside run()
    self_pdf_file,     \* the worker's self.pdf_file (line 46)
    n_pages,           \* len(pdf), line 60
    dlgResult,         \* outcome of self.dialog.exec()
    fromPage,          \* self._printer.fromPage()
    toPage,            \* self._printer.toPage()
    painterActive,     \* a QPainter is active on the printer
    docOpen,           \* a PdfDocument is open
    page_indices,      \* the list built on line 67
    pageNumber,        \* iterations of the render loop completed
    log,               \* what the worker did, in order
    fitPc,             \* position inside the fit step of one page (lines 80-96)
    VW,                \* rect.width()
    VH,                \* rect.height()
    pilWidth,          \* pilWidth
    pilHeight,         \* pilHeight
    imageRatio,        \* imageRatio, kept as the fraction <<numerator, denominator>>
    viewportRatio,     \* viewportRatio, kept as a fraction
    rotated,           \* the bitmap was transposed (line 87)
    fitBranch,         \* which branch of line 91 was taken
    printArea          \* printArea as <<x, y, width, height>>

uiVars == <<uiPc, btnEnabled, stepLabel, pdf_file, jobs, inFlight,
            finishedConnected, initError>>
workerVars == <<wpc, self_pdf_file, n_pages, dlgResult, fromPage, toPage, painterActive, docOpen,
                page_indices, pageNumber, log>>
vars == <<uiPc, btnEnabled, stepLabel, pdf_file, jobs, inFlight,
          finishedConnected, uiQueue, thState, initError, wpc,
          self_pdf_file, n_pages, dlgResult,
          fromPage, toPage, painterActive, docOpen, page_indices, pageNumber,
          log, fitPc, VW, VH, pilWidth, pilHeight, imageRatio, viewportRatio,
          rotated, fitBranch, printArea>>

\* the variables of the fit step, and those of the job
fitVars == <<fitPc, VW, VH, pilWidth, pilHeight, imageRatio, viewportRatio,
             rotated, fitBranch, printArea>>
jobVars == <<uiPc, btnEnabled, stepLabel, pdf_file, jobs, inFlight,
             finishedConnected, uiQueue, thState, initError, wpc,
             self_pdf_file, n_pages, dlgResult, fromPage, toPage, painterActive,
             docOpen, page_indices, pageNumber, log>>

\* ---- values ---------------------------------------------------------------
\* What the file picker can hand back: the empty string (picker cancelled),
\* or a path string naming a file that is gone, is no PDF, or is a PDF of
\* `pages` pages.
NoFile == [type |-> "str", kind |-> "none", pages |-> 0]

FileChoices ==
    {[type |-> "str", kind |-> k, pages |-> 0] : k \in {"empty", "missing", "corrupt"}}
    \cup {[type |-> "str", kind |-> "valid", pages |-> n] : n \in 0..MaxPages}

\* from/to pairs of the printer after the dialog: (0,0) when no range is set
PrinterRanges ==
    {<<0, 0>>} \cup {<<f, t>> : f \in 1..MaxField, t \in 0..MaxField}

Ev(op, arg) == [op |-> op, arg |-> arg]
Msg(sig, n) == [sig |-> sig, n |-> n]

\* ---- pure helpers ---------------------------------------------------------
\* os.path.exists(pdf)
PathExists(pdf) == pdf.kind \in {"corrupt", "valid"}

\* printPdfWorker.__init__, line 45: the condition under which the path is kept
InitAccepts(pdf) ==
    pdf.type = "str" \/ pdf.type = "Path" \/ ~PathExists(pdf)

\* printPdfWorker.__init__: the exception it raises, "none" when it returns
InitRaises(pdf) ==
    IF pdf.type = "None" THEN "AttributeError"
    ELSE IF InitAccepts(pdf) THEN "none"
    ELSE "TypeError"

\* pdfium.PdfDocument(self.pdf_file) succeeds only on a decodable PDF
OpenSucceeds(pdf) == pdf.kind = "valid"

\* list(range(a, b))
Range(a, b) == [i \in 1..(IF b > a THEN b - a ELSE 0) |-> a + i - 1]

\* line 65 with the upper end taken as exclusive of page `to`
PrintRangeExclusive(n, from, to) ==
    IF from = 0 THEN Range(0, n) ELSE Range(from - 1, to - 1)

\* line 65
PrintRange(n, from, to) ==
    IF from = 0 THEN Range(0, n) ELSE Range(from - 1, to)

\* line 55 with the dialog's result ignored
RunEntersBodyAlways(accepted) == TRUE

\* line 55: the body of run() is entered iff dialog.exec() is truthy
RunEntersBody(accepted) == accepted

\* line 77 with the first page included
NeedsNewPageFromFirst(n) == n >= 1

\* line 77
NeedsNewPage(n) == n > 1

\* line 103 with the quotient rounded up
PercentCeil(n, total) == (n * 100 + total - 1) \div total

\* line 103 with the count of pages drawn taken 0-based
PercentZeroBased(n, total) == ((n - 1) * 100) \div total

\* line 103: int(pageNumber*100/len(page_indices))
Percent(n, total) == (n * 100) \div total

\* pdf.render refuses an index outside the document on its first next()
InBounds(idx, n) == \A j \in 1..Len(idx) : idx[j] >= 0 /\ idx[j] < n

\* the UI thread dispatches events only from an event loop: the main loop, or
\* the nested loop of a modal dialog (file picker, message box)
InEventLoop == uiPc \in {"idle", "getFile", "msgBox"}

\* ---- initial state --------------------------------------------------------
\* no job yet: the window as Window.__init__ leaves it
NoJob ==
    /\ uiPc = "idle"
    /\ btnEnabled = TRUE
    /\ stepLabel = 0
    /\ pdf_file = NoFile
    /\ jobs = 0
    /\ inFlight = 0
    /\ finishedConnected = FALSE
    /\ uiQueue = <<>>
    /\ thState = "none"
    /\ initError = "none"
    /\ wpc = "none"
    /\ self_pdf_file = NoFile
    /\ n_pages = 0
    /\ dlgResult = "pending"
    /\ fromPage = 0
    /\ toPage = 0
    /\ painterActive = FALSE
    /\ docOpen = FALSE
    /\ page_indices = <<>>
    /\ pageNumber = 0
    /\ log = <<>>

\* no page is being fitted
NoFit ==
    /\ fitPc = "off"
    /\ VW = 0
    /\ VH = 0
    /\ pilWidth = 0
    /\ pilHeight = 0
    /\ imageRatio = <<0, 1>>
    /\ viewportRatio = <<0, 1>>
    /\ rotated = FALSE
    /\ fitBranch = "none"
    /\ printArea = <<0, 0, 0, 0>>

Init == NoJob /\ NoFit

\* ---- UI thread: Window ---------------------------------------------------
\* line 132: a click on the enabled print button enters runPrintTask, whose
\* first statement (line 166, getFile) opens the modal file picker.
ClickPrint ==
    /\ uiPc = "idle"
    /\ btnEnabled
    /\ jobs < MaxJobs
    /\ uiPc' = "getFile"
    /\ jobs' = jobs + 1
    /\ UNCHANGED <<btnEnabled, stepLabel, pdf_file, inFlight, finishedConnected,
                   initError, uiQueue, thState>>
    /\ UNCHANGED workerVars
    /\ UNCHANGED fitVars

\* lines 142-149 and 166: the picker returns response[0]
getFile ==
    /\ uiPc = "getFile"
    /\ \E f \in FileChoices : pdf_file' = f
    /\ uiPc' = "construct"
    /\ UNCHANGED <<btnEnabled, stepLabel, jobs, inFlight, finishedConnected,
                   initError, uiQueue, thState>>
    /\ UNCHANGED workerVars
    /\ UNCHANGED fitVars

\* lines 168-178: a fresh QThread and a fresh printPdfWorker(pdf_file); the
\* signals of lines 174-178 are connected.  An exception of the constructor
\* leaves runPrintTask at line 170.
CreateWorker ==
    /\ uiPc = "construct"
    /\ initError' = InitRaises(pdf_file)
    /\ thState' = "created"
    /\ finishedConnected' = FALSE
    /\ IF InitRaises(pdf_file) = "none"
       THEN /\ uiPc' = "start"
            /\ wpc' = "created"
            /\ self_pdf_file' = pdf_file
            /\ n_pages' = 0
            /\ dlgResult' = "pending"
            /\ fromPage' = 0
            /\ toPage' = 0
            /\ painterActive' = FALSE
            /\ docOpen' = FALSE
            /\ page_indices' = <<>>
            /\ pageNumber' = 0
            /\ log' = <<>>
       ELSE /\ uiPc' = "idle"
            /\ UNCHANGED workerVars
    /\ UNCHANGED <<btnEnabled, stepLabel, pdf_file, jobs, inFlight, uiQueue>>
    /\ UNCHANGED fitVars

\* line 180: self.thread.start()
StartThread ==
    /\ uiPc = "start"
    /\ thState' = "running"
    /\ wpc' = "ready"
    /\ inFlight' = inFlight + 1
    /\ uiPc' = "disable"
    /\ UNCHANGED <<btnEnabled, stepLabel, pdf_file, jobs, finishedConnected,
                   initError, uiQueue>>
    /\ UNCHANGED <<self_pdf_file, n_pages, dlgResult, fromPage, toPage, painterActive, docOpen,
                   page_indices, pageNumber, log>>
    /\ UNCHANGED fitVars

\* line 183 left out: the button stays as it was
BtnAfterStartKept == TRUE

\* line 183: the argument of longRunningBtn.setEnabled
BtnAfterStart == FALSE

\* line 183
DisableButton ==
    /\ uiPc = "disable"
    /\ btnEnabled' = BtnAfterStart
    /\ uiPc' = "connect"
    /\ UNCHANGED <<stepLabel, pdf_file, jobs, inFlight, finishedConnected,
                   initError, uiQueue, thState>>
    /\ UNCHANGED workerVars
    /\ UNCHANGED fitVars

\* line 184: self.thread.finished.connect(self.printFinished); runPrintTask
\* returns to the event loop
ConnectFinished ==
    /\ uiPc = "connect"
    /\ finishedConnected' = TRUE
    /\ uiPc' = "idle"
    /\ UNCHANGED <<btnEnabled, stepLabel, pdf_file, jobs, inFlight, initError,
                   uiQueue, thState>>
    /\ UNCHANGED workerVars
    /\ UNCHANGED fitVars

\* lines 155-156, delivered through the queued connection of line 178
reportProgress ==
    /\ InEventLoop
    /\ uiQueue # <<>>
    /\ Head(uiQueue).sig = "progress"
    /\ stepLabel' = Head(uiQueue).n
    /\ uiQueue' = Tail(uiQueue)
    /\ UNCHANGED <<uiPc, btnEnabled, pdf_file, jobs, inFlight, finishedConnected,
                   initError, thState>>
    /\ UNCHANGED workerVars
    /\ UNCHANGED fitVars

\* line 175: worker.finished -> thread.quit.  The QThread object lives in the
\* UI thread and the signal is emitted in the worker thread, so the call is
\* queued and runs from the UI event loop; it ends the thread's event loop.
ThreadQuit ==
    /\ InEventLoop
    /\ uiQueue # <<>>
    /\ Head(uiQueue).sig = "quit"
    /\ thState' = IF thState = "running" THEN "quitting" ELSE thState
    /\ uiQueue' = Tail(uiQueue)
    /\ UNCHANGED uiVars
    /\ UNCHANGED workerVars
    /\ UNCHANGED fitVars

\* the thread leaves its event loop and emits QThread.finished (lines 177, 184)
ThreadFinished ==
    /\ thState = "quitting"
    /\ thState' = "finished"
    /\ uiQueue' = IF finishedConnected
                  THEN Append(uiQueue, Msg("printFinished", 0))
                  ELSE uiQueue
    /\ UNCHANGED uiVars
    /\ UNCHANGED workerVars
    /\ UNCHANGED fitVars

\* lines 158-163 with line 160 left out: the label keeps its text
printFinishedKeepsLabel ==
    /\ uiPc = "idle"
    /\ uiQueue # <<>>
    /\ Head(uiQueue).sig = "printFinished"
    /\ btnEnabled' = TRUE
    /\ stepLabel' = stepLabel
    /\ inFlight' = inFlight - 1
    /\ uiPc' = "msgBox"
    /\ uiQueue' = Tail(uiQueue)
    /\ UNCHANGED <<pdf_file, jobs, finishedConnected, initError, thState>>
    /\ UNCHANGED workerVars
    /\ UNCHANGED fitVars

\* lines 158-163; msgBox.exec() leaves the UI thread in the box's modal loop.
\* (The model keeps no stack of nested loops: the handler is dispatched from
\* the main loop.)
printFinished ==
    /\ uiPc = "idle"
    /\ uiQueue # <<>>
    /\ Head(uiQueue).sig = "printFinished"
    /\ btnEnabled' = TRUE
    /\ stepLabel' = 0
    /\ inFlight' = inFlight - 1
    /\ uiPc' = "msgBox"
    /\ uiQueue' = Tail(uiQueue)
    /\ UNCHANGED <<pdf_file, jobs, finishedConnected, initError, thState>>
    /\ UNCHANGED workerVars
    /\ UNCHANGED fitVars

\* line 163 returns: the user acknowledges "Printing completed"
CloseMsgBox ==
    /\ uiPc = "msgBox"
    /\ uiPc' = "idle"
    /\ UNCHANGED <<btnEnabled, stepLabel, pdf_file, jobs, inFlight,
                   finishedConnected, initError, uiQueue, thState>>
    /\ UNCHANGED workerVars
    /\ UNCHANGED fitVars

\* ---- worker thread: printPdfWorker.run ------------------------------------
\* line 174: thread.started invokes run(), which opens the print dialog
RunBegin ==
    /\ wpc = "ready"
    /\ wpc' = "dialog"
    /\ UNCHANGED <<self_pdf_file, n_pages, dlgResult, fromPage, toPage, painterActive, docOpen,
                   page_indices, pageNumber, log>>
    /\ UNCHANGED uiVars
    /\ UNCHANGED <<uiQueue, thState>>
    /\ UNCHANGED fitVars

\* lines 55-57: dialog.exec() returns in the worker thread with the user's
\* answer and the page range the user chose.  Nothing in the code orders the
\* answer after any statement of runPrintTask.
\* Accepted: the painter is created on the printer (line 56).
DialogAnswer ==
    /\ wpc = "dialog"
    /\ \E acc \in BOOLEAN, r \in PrinterRanges :
          /\ ~acc => r = <<0, 0>>
          /\ dlgResult' = IF acc THEN "accepted" ELSE "declined"
          /\ fromPage' = r[1]
          /\ toPage' = r[2]
          /\ IF RunEntersBody(acc)
             THEN painterActive' = TRUE /\ wpc' = "open"
             ELSE painterActive' = painterActive /\ wpc' = "finish"
    /\ UNCHANGED <<self_pdf_file, n_pages, docOpen, page_indices, pageNumber, log>>
    /\ UNCHANGED uiVars
    /\ UNCHANGED <<uiQueue, thState>>
    /\ UNCHANGED fitVars

\* lines 59-73: the document opens, the range is resolved
OpenDocument ==
    /\ wpc = "open"
    /\ OpenSucceeds(self_pdf_file)
    /\ docOpen' = TRUE
    /\ n_pages' = self_pdf_file.pages
    /\ page_indices' = PrintRange(self_pdf_file.pages, fromPage, toPage)
    /\ pageNumber' = 0
    /\ wpc' = "loop"
    /\ UNCHANGED <<self_pdf_file, dlgResult, fromPage, toPage, painterActive, log>>
    /\ UNCHANGED uiVars
    /\ UNCHANGED <<uiQueue, thState>>
    /\ UNCHANGED fitVars

\* line 59 raises: nothing in run() catches it, the exception leaves run()
OpenRaises ==
    /\ wpc = "open"
    /\ ~OpenSucceeds(self_pdf_file)
    /\ wpc' = "raised"
    /\ UNCHANGED <<self_pdf_file, n_pages, dlgResult, fromPage, toPage, painterActive, docOpen,
                   page_indices, pageNumber, log>>
    /\ UNCHANGED uiVars
    /\ UNCHANGED <<uiQueue, thState>>
    /\ UNCHANGED fitVars

\* lines 75-103: one iteration of the loop
DrawPage ==
    /\ wpc = "loop"
    /\ pageNumber < Len(page_indices)
    /\ InBounds(page_indices, n_pages)
    /\ LET n == pageNumber + 1
           p == Percent(n, Len(page_indices))
       IN /\ pageNumber' = n
          /\ log' = log
                    \o (IF NeedsNewPage(n) THEN <<Ev("newPage", 0)>> ELSE <<>>)
                    \o <<Ev("draw", page_indices[n]), Ev("progress", p)>>
          /\ uiQueue' = Append(uiQueue, Msg("progress", p))
    /\ UNCHANGED <<wpc, self_pdf_file, n_pages, dlgResult, fromPage, toPage, painterActive, docOpen,
                   page_indices>>
    /\ UNCHANGED uiVars
    /\ UNCHANGED thState
    /\ UNCHANGED fitVars

\* line 75: next(renderer) raises, on an index outside the document (always,
\* before the first page) or on a page that cannot be rendered (possibly)
RenderRaises ==
    /\ wpc = "loop"
    /\ pageNumber < Len(page_indices)
    /\ wpc' = "raised"
    /\ UNCHANGED <<self_pdf_file, n_pages, dlgResult, fromPage, toPage, painterActive, docOpen,
                   page_indices, pageNumber, log>>
    /\ UNCHANGED uiVars
    /\ UNCHANGED <<uiQueue, thState>>
    /\ UNCHANGED fitVars

\* line 75: page_indices is exhausted, zip stops
LoopExit ==
    /\ wpc = "loop"
    /\ pageNumber = Len(page_indices)
    /\ wpc' = "cleanup"
    /\ UNCHANGED <<self_pdf_file, n_pages, dlgResult, fromPage, toPage, painterActive, docOpen,
                   page_indices, pageNumber, log>>
    /\ UNCHANGED uiVars
    /\ UNCHANGED <<uiQueue, thState>>
    /\ UNCHANGED fitVars

\* lines 106-107: pdf.close(); painter.end()
Cleanup ==
    /\ wpc = "cleanup"
    /\ docOpen' = FALSE
    /\ painterActive' = FALSE
    /\ log' = log \o <<Ev("close", 0), Ev("end", 0)>>
    /\ wpc' = "finish"
    /\ UNCHANGED <<self_pdf_file, n_pages, dlgResult, fromPage, toPage, page_indices, pageNumber>>
    /\ UNCHANGED uiVars
    /\ UNCHANGED <<uiQueue, thState>>
    /\ UNCHANGED fitVars

\* lines 109-110: del self._printer; self.finished.emit(); run() returns
EmitFinished ==
    /\ wpc = "finish"
    /\ log' = Append(log, Ev("finished", 0))
    /\ uiQueue' = Append(uiQueue, Msg("quit", 0))
    /\ wpc' = "done"
    /\ UNCHANGED <<self_pdf_file, n_pages, dlgResult, fromPage, toPage, painterActive, docOpen,
                   page_indices, pageNumber>>
    /\ UNCHANGED uiVars
    /\ UNCHANGED thState
    /\ UNCHANGED fitVars

\* ---- specification --------------------------------------------------------
Next ==
    \/ ClickPrint
    \/ getFile
    \/ CreateWorker
    \/ StartThread
    \/ DisableButton
    \/ ConnectFinished
    \/ reportProgress
    \/ ThreadQuit
    \/ ThreadFinished
    \/ printFinished
    \/ CloseMsgBox
    \/ RunBegin
    \/ DialogAnswer
    \/ OpenDocument
    \/ OpenRaises
    \/ DrawPage
    \/ RenderRaises
    \/ LoopExit
    \/ Cleanup
    \/ EmitFinished

Spec == Init /\ [][Next]_vars

TypeOK ==
    /\ uiPc \in {"idle", "getFile", "construct", "start", "disable", "connect", "msgBox"}
    /\ btnEnabled \in BOOLEAN
    /\ stepLabel \in 0..100
    /\ pdf_file \in FileChoices \cup {NoFile}
    /\ jobs \in 0..MaxJobs
    /\ inFlight \in 0..MaxJobs
    /\ thState \in {"none", "created", "running", "quitting", "finished"}
    /\ wpc \in {"none", "created", "ready", "dialog", "open", "loop", "cleanup",
                "finish", "done", "raised"}
    /\ self_pdf_file \in FileChoices \cup {NoFile}
    /\ n_pages \in 0..MaxPages
    /\ dlgResult \in {"pending", "accepted", "declined"}
    /\ <<fromPage, toPage>> \in PrinterRanges
    /\ painterActive \in BOOLEAN
    /\ docOpen \in BOOLEAN
    /\ pageNumber \in 0..Len(page_indices)
    /\ \A i \in 1..Len(uiQueue) : uiQueue[i].sig \in {"progress", "quit", "printFinished"}

\* ---- what the log of a job says -------------------------------------------
Count(op) == Cardinality({i \in 1..Len(log) : log[i].op = op})

IsDraw(e) == e.op = "draw"
IsProgress(e) == e.op = "progress"

\* the page indices drawn, in the order of the draws
DrawnPages ==
    LET d == SelectSeq(log, IsDraw) IN [k \in 1..Len(d) |-> d[k].arg]

\* the progress values emitted, in the order of emission
ProgressValues ==
    LET d == SelectSeq(log, IsProgress) IN [k \in 1..Len(d) |-> d[k].arg]

NonDecreasing(s) == \A k \in 1..(Len(s) - 1) : s[k] <= s[k + 1]

CeilDiv(a, b) == (a + b - 1) \div b

Max0(x) == IF x > 0 THEN x ELSE 0

\* the worker has left run(), by returning or by an uncaught exception
RunExited == wpc \in {"done", "raised"}

\* C1: every started job, once run() is left on whatever path, has emitted
\* 'finished' exactly once, as the last thing it did.
C1_FinishedOnEveryExit ==
    RunExited =>
        /\ Count("finished") = 1
        /\ Len(log) > 0
        /\ log[Len(log)].op = "finished"

\* C2: in every job the resources that were opened are released, and released
\* before 'finished': a job that has left run() holds neither a document nor
\* an active painter, and no close/end comes after a 'finished'.
C2_CleanupBeforeFinished ==
    /\ RunExited => (~docOpen /\ ~painterActive)
    /\ \A i, j \in 1..Len(log) :
          (log[i].op = "finished" /\ log[j].op \in {"close", "end"}) => j < i

\* C3: a path that references no existing file makes the constructor raise:
\* past the construction no thread is started and the button is enabled.
C3_MissingPathRaises ==
    (pdf_file.kind \in {"missing", "empty"} /\ uiPc # "construct") =>
        /\ initError # "none"
        /\ thState # "running"
        /\ wpc \notin {"created", "ready", "dialog", "open", "loop", "cleanup", "finish"}
        /\ btnEnabled

\* C4: after the picker was cancelled (empty path) no worker or thread
\* exists for this click, no print dialog is shown, the button is enabled and
\* the label is what it was (0).
C4_CancelDoesNothing ==
    pdf_file.kind = "empty" =>
        /\ wpc \in {"none", "done"}
        /\ thState \in {"none", "finished"}
        /\ btnEnabled
        /\ stepLabel = 0

\* C5: a job whose print dialog was declined draws nothing, advances no page,
\* emits no progress, and emits 'finished' exactly once.
C5_DeclinedDrawsNothing ==
    dlgResult = "declined" =>
        /\ Count("draw") = 0
        /\ Count("newPage") = 0
        /\ Count("progress") = 0
        /\ \A i \in 1..Len(uiQueue) : uiQueue[i].sig # "progress"
        /\ Count("finished") <= 1
        /\ (wpc = "done" => Count("finished") = 1)

C5_Witness ==
    /\ dlgResult = "declined"
    /\ wpc = "done"
    /\ thState = "finished"
    /\ log = <<Ev("finished", 0)>>

\* C6 as written: a completed sub-range job (0 < from <= to) has drawn exactly
\* to - from pages, ascending, the first being index from - 1.
C6_Original ==
    (dlgResult = "accepted" /\ fromPage > 0 /\ fromPage <= toPage /\ wpc = "done") =>
        /\ Len(DrawnPages) = toPage - fromPage
        /\ \A k \in 1..(Len(DrawnPages) - 1) : DrawnPages[k] < DrawnPages[k + 1]
        /\ (Len(DrawnPages) > 0 => DrawnPages[1] = fromPage - 1)

\* C6, amended: in a sub-range job (from > 0) the pages drawn are, at every
\* moment, the first pages of from-1, from, ..., to-1 in that order, and a job
\* that gets through its loop has drawn all to - from + 1 of them (none when
\* to < from).
C6_SubRangeInclusive ==
    (dlgResult = "accepted" /\ fromPage > 0) =>
        /\ Len(DrawnPages) <= Max0(toPage - fromPage + 1)
        /\ \A k \in 1..Len(DrawnPages) : DrawnPages[k] = fromPage - 1 + (k - 1)
        /\ (wpc \in {"cleanup", "finish", "done"} =>
                Len(DrawnPages) = Max0(toPage - fromPage + 1))

C6_Witness ==
    /\ dlgResult = "accepted"
    /\ fromPage = 2
    /\ toPage = 3
    /\ wpc = "done"
    /\ DrawnPages = <<1, 2>>

\* C7 as written: a completed full-range job on N >= 1 pages has N draws and
\* non-decreasing progress values, the first ceil(100/N), the last 100.
C7_Original ==
    (dlgResult = "accepted" /\ fromPage = 0 /\ n_pages >= 1 /\ wpc = "done") =>
        /\ Count("draw") = n_pages
        /\ NonDecreasing(ProgressValues)
        /\ ProgressValues[1] = CeilDiv(100, n_pages)
        /\ ProgressValues[Len(ProgressValues)] = 100

\* C7, amended: in a full-range job on N >= 1 pages the progress values are
\* non-decreasing and the first is floor(100/N); a job that gets through its
\* loop has N draws and its last progress value is exactly 100.
C7_FullRangeProgress ==
    (dlgResult = "accepted" /\ fromPage = 0 /\ n_pages >= 1) =>
        /\ NonDecreasing(ProgressValues)
        /\ Len(ProgressValues) = Count("draw")
        /\ (Len(ProgressValues) > 0 =>
                ProgressValues[1] = 100 \div n_pages)
        /\ (wpc \in {"cleanup", "finish", "done"} =>
                /\ Count("draw") = n_pages
                /\ ProgressValues[Len(ProgressValues)] = 100)

C7_Witness ==
    /\ dlgResult = "accepted"
    /\ fromPage = 0
    /\ n_pages = 3
    /\ wpc = "done"
    /\ ProgressValues = <<33, 66, 100>>

Quiescent ==
    /\ uiPc = "idle"
    /\ uiQueue = <<>>
    /\ \/ wpc = "raised"
       \/ wpc = "done" /\ thState = "finished"

\* C9: every job that disabled the button has its completion handled: when
\* nothing of the job remains to be done, the button is enabled again and
\* the label reads 0.
C9_CompletionHandled ==
    Quiescent => (btnEnabled /\ stepLabel = 0)

FracLT1(r) == r[1] < r[2]
FracGT1(r) == r[1] > r[2]
FracGT(a, b) == a[1] * b[2] > b[1] * a[2]

\* line 86: the condition under which the bitmap is transposed
NeedsRotation(vr, ir) ==
    (FracLT1(vr) /\ FracGT1(ir)) \/ (FracGT1(vr) /\ FracLT1(ir))

\* The operands <<rect.width(), pilWidth, pilHeight>>, each up to 12, for which
\* the double rect.width()/(pilWidth/pilHeight) lies just below the exact
\* quotient although that quotient is an integer: 9/(9/7) = 6.999999999999999.
WidthFallsShort == {<<9, 9, 7>>}

\* line 92 with the quotient rounded to the nearest integer
RoundWidthFit(vw, pw, ph) == (2 * vw * ph + pw) \div (2 * pw)

\* line 92: int(rect.width()/(pilWidth/pilHeight)), int() truncating the double
IntWidthFit(vw, pw, ph) ==
    ((vw * ph) \div pw) - (IF <<vw, pw, ph>> \in WidthFallsShort THEN 1 ELSE 0)

\* line 95: int(pilWidth/pilHeight*rect.height()); for operands up to 12 the
\* double is never below an integral exact product
IntHeightFit(vh, pw, ph) == (pw * vh) \div ph

\* lines 57 and 75: a viewport and a rendered bitmap of positive dimensions
FitInit ==
    /\ NoJob
    /\ fitPc = "size"
    /\ VW \in 1..MaxDim
    /\ VH \in 1..MaxDim
    /\ pilWidth \in 1..MaxDim
    /\ pilHeight \in 1..MaxDim
    /\ imageRatio = <<0, 1>>
    /\ viewportRatio = <<0, 1>>
    /\ rotated = FALSE
    /\ fitBranch = "none"
    /\ printArea = <<0, 0, 0, 0>>

\* lines 80-83
ReadSize ==
    /\ fitPc = "size"
    /\ imageRatio' = <<pilHeight, pilWidth>>
    /\ viewportRatio' = <<VH, VW>>
    /\ fitPc' = "orient"
    /\ UNCHANGED <<VW, VH, pilWidth, pilHeight, rotated, fitBranch, printArea>>
    /\ UNCHANGED jobVars

\* lines 86-88: the bitmap is transposed and its size read again; imageRatio
\* keeps the value of line 81
RotateImage ==
    /\ fitPc = "orient"
    /\ NeedsRotation(viewportRatio, imageRatio)
    /\ pilWidth' = pilHeight
    /\ pilHeight' = pilWidth
    /\ rotated' = TRUE
    /\ fitPc' = "area"
    /\ UNCHANGED <<VW, VH, imageRatio, viewportRatio, fitBranch, printArea>>
    /\ UNCHANGED jobVars

\* line 86, condition false
KeepImage ==
    /\ fitPc = "orient"
    /\ ~NeedsRotation(viewportRatio, imageRatio)
    /\ fitPc' = "area"
    /\ UNCHANGED <<VW, VH, pilWidth, pilHeight, imageRatio, viewportRatio,
                   rotated, fitBranch, printArea>>
    /\ UNCHANGED jobVars

\* lines 91-96 and 101
AdjustArea ==
    /\ fitPc = "area"
    /\ IF FracGT(viewportRatio, imageRatio)
       THEN /\ printArea' = <<0, 0, VW, IntWidthFit(VW, pilWidth, pilHeight)>>
            /\ fitBranch' = "width"
       ELSE /\ printArea' = <<0, 0, IntHeightFit(VH, pilWidth, pilHeight), VH>>
            /\ fitBranch' = "height"
    /\ fitPc' = "drawn"
    /\ UNCHANGED <<VW, VH, pilWidth, pilHeight, imageRatio, viewportRatio, rotated>>
    /\ UNCHANGED jobVars

FitNext ==
    \/ ReadSize
    \/ RotateImage
    \/ KeepImage
    \/ AdjustArea

FitSpec == FitInit /\ [][FitNext]_vars

\* the bitmap's size as rendered, before any rotation
RawWidth == IF rotated THEN pilHeight ELSE pilWidth
RawHeight == IF rotated THEN pilWidth ELSE pilHeight

\* a / b rounded to the nearest integer
Round(a, b) == (2 * a + b) \div (2 * b)

\* C11: the rectangle a page is drawn into is anchored at (0,0) and lies
\* within the viewport, rotated or not.
C11_WithinViewport ==
    fitPc = "drawn" =>
        /\ printArea[1] = 0
        /\ printArea[2] = 0
        /\ printArea[3] <= VW
        /\ printArea[4] <= VH

\* C12: the bitmap is rotated exactly when one of VH/VW and PH/PW is > 1 and
\* the other < 1, and the width-fit branch is taken iff VH/VW is greater than
\* the image ratio taken after the rotation.
C12_FitChoice ==
    /\ fitPc \in {"area", "drawn"} =>
          (rotated <=> ((VH < VW /\ RawHeight > RawWidth)
                        \/ (VH > VW /\ RawHeight < RawWidth)))
    /\ fitPc = "drawn" =>
          (fitBranch = "width" <=> VH * pilWidth > pilHeight * VW)

\* C13 as written: width-fit gives (0, 0, VW, round(VW/(PW/PH))), height-fit
\* gives (0, 0, round(PH/PW * VH), VH), PW and PH taken after rotation.
C13_Original ==
    fitPc = "drawn" =>
        /\ fitBranch = "width" =>
              printArea = <<0, 0, VW, Round(VW * pilHeight, pilWidth)>>
        /\ fitBranch = "height" =>
              printArea = <<0, 0, Round(pilHeight * VH, pilWidth), VH>>

\* q is what int() makes of a double computed for the exact value a / b:
\* floor(a / b), or one less where a / b is an integer
Truncated(q, a, b) ==
    \/ q = a \div b
    \/ q = (a \div b) - 1 /\ a % b = 0

\* C13, amended: width-fit gives (0, 0, VW, int(VW/(PW/PH))) and height-fit
\* gives (0, 0, int(PW/PH * VH), VH), PW and PH taken after rotation, int()
\* truncating: the result is the floor of the exact value, or one less where
\* the exact value is an integer and the double falls just short of it.
C13_TruncatedArea ==
    fitPc = "drawn" =>
        /\ fitBranch \in {"width", "height"}
        /\ fitBranch = "width" =>
              /\ printArea[1] = 0 /\ printArea[2] = 0 /\ printArea[3] = VW
              /\ Truncated(printArea[4], VW * pilHeight, pilWidth)
        /\ fitBranch = "height" =>
              /\ printArea[1] = 0 /\ printArea[2] = 0 /\ printArea[4] = VH
              /\ Truncated(printArea[3], pilWidth * VH, pilHeight)

C13_Witness ==
    /\ fitPc = "drawn"
    /\ ~rotated
    /\ fitBranch = "width"
    /\ VW = 2 /\ VH = 9 /\ pilWidth = 3 /\ pilHeight = 4
    /\ printArea = <<0, 0, 2, 2>>

\* ---- the job's log, continued ----------------------------------------------
\* the number of log entries of kind op among the first i
CountUpTo(op, i) == Cardinality({j \in 1..i : log[j].op = op})

\* C14: the progress value emitted after the k-th draw of a job over M pages
\* is floor(k * 100 / M); each value lies in 0..100, and each draw is followed
\* at once by exactly one progress value.
C14_ProgressAfterEachDraw ==
    /\ \A i \in 1..Len(log) :
          log[i].op = "progress" =>
              /\ i > 1
              /\ log[i - 1].op = "draw"
              /\ log[i].arg = (CountUpTo("draw", i) * 100) \div Len(page_indices)
              /\ log[i].arg \in 0..100
    /\ \A i \in 1..Len(log) :
          log[i].op = "draw" => (i < Len(log) /\ log[i + 1].op = "progress")
    /\ Count("progress") = Count("draw")

C14_Witness ==
    /\ dlgResult = "accepted"
    /\ fromPage = 2
    /\ toPage = 3
    /\ wpc = "done"
    /\ ProgressValues = <<50, 100>>

\* C15: the printer is advanced to a new page exactly once before every draw
\* but the first, never before the first draw and never after the last: the
\* page advances number the draws minus one (zero for at most one draw).
C15_NewPageBetweenDraws ==
    /\ \A i \in 1..Len(log) :
          log[i].op = "draw" =>
              IF CountUpTo("draw", i) = 1
              THEN CountUpTo("newPage", i) = 0
              ELSE i > 1 /\ log[i - 1].op = "newPage"
    /\ \A i \in 1..Len(log) :
          log[i].op = "newPage" => (i < Len(log) /\ log[i + 1].op = "draw")
    /\ Count("newPage") = Max0(Count("draw") - 1)

C15_Witness ==
    /\ wpc = "done"
    /\ Count("draw") = 3
    /\ Count("newPage") = 2

\* C16: once the dialog was accepted and the document opened, every index
\* handed to the renderer lies in [0, pageCount); and a pair with from > 0 and
\* to < from gives an empty range, for which nothing is drawn, no progress is
\* emitted and run() is not left by an exception.
C16_IndicesInRange ==
    /\ (dlgResult = "accepted" /\ wpc \in {"loop", "cleanup", "finish", "done"}) =>
          InBounds(page_indices, n_pages)
    /\ (dlgResult = "accepted" /\ fromPage > 0 /\ toPage < fromPage
        /\ (wpc \in {"loop", "cleanup", "finish", "done"} \/ docOpen)) =>
          /\ page_indices = <<>>
          /\ Count("draw") = 0
          /\ Count("progress") = 0
          /\ wpc # "raised"

\* C17: progress notifications are handled before the completion handler:
\* none is queued once printFinished is queued or has run, and the label
\* reads 0 whenever no job is in flight.
C17_LabelZeroWhenIdle ==
    /\ inFlight = 0 => stepLabel = 0
    /\ (inFlight = 0 \/ \E i \in 1..Len(uiQueue) : uiQueue[i].sig = "printFinished") =>
          \A j \in 1..Len(uiQueue) : uiQueue[j].sig # "progress"

C17_Witness ==
    /\ inFlight = 0
    /\ uiPc = "msgBox"
    /\ stepLabel = 0
    /\ uiQueue = <<>>
    /\ Count("progress") >= 2

====
